---- MODULE Spec2Model ----
(***************************************************************************)
(* Model of synlogger: the structlog processor chain assembled by          *)
(* RootLogger._configure_processors, the idempotent (re)initialisation of  *)
(* a logger handle against the process-wide logging registry, the          *)
(* StructlogUtils stages (censoring, file path attachment, graylog         *)
(* rendering), the role loggers of general.py and the SysmetricLogger with *)
(* its background process.                                                 *)
(*                                                                         *)
(* Python values are written as strings: "" is the empty string, "0" the   *)
(* integer zero, "None", "True" and "False" the corresponding constants.   *)
(* An event_dict is a function from a finite set of keys to such values.   *)
(***************************************************************************)
EXTENDS Integers, Sequences, FiniteSets, TLC

VARIABLES
    attrs,        \* attrs[h]: the attributes of handle h (RootLogger.__init__)
    heap,         \* heap[l]: contents of list object l (filter_functions / censor_keys lists)
    synlog,       \* synlog[h]: None or the bound structlog logger of h
    levels,       \* levels[n]: threshold of logging.getLogger(n) (0 is NOTSET)
    handlers,     \* handlers[n]: handler list of logging.getLogger(n)
    rootHandlers, \* TRUE iff the root logger has a handler (logging.basicConfig)
    entries,      \* entries[h]: records captured by the LogCapture renderer bound to h
    nbuilds,      \* number of processor chains built so far (object identity of a build)
    last,         \* outcome of the last call made on a handle
    uK, uR, uOut, uPc, \* StructlogUtils harness: censor_keys, event_dict in, event_dict out, position
    ctor,         \* ctor[h]: the class of handle h and the label its constructor was given
    tracker,      \* tracker[h]: None or the id of the Process stored in SysmetricLogger.tracker
    children,     \* children[p]: the background process with id p (position, exit code, closed)
    pc            \* pc[h]: "join" while a terminate() call on h waits in join(), else "idle"

vars == <<attrs, heap, synlog, levels, handlers, rootHandlers, entries,
          nbuilds, last, uK, uR, uOut, uPc, ctor, tracker, children, pc>>

------------------------------------------------------------------------------
(* Bounds of the model *)

MaxInit == 3
MaxEmit == 2
MaxCensorKeys == 2
MaxTrack == 2

------------------------------------------------------------------------------
(* Python values *)

None == "None"

\* config.py: CENSOR, and the literal written by censor_logging
CENSOR == "*CENSORED*"

\* Python truthiness of a value, as tested by `if k:`
Truthy(v) == v \notin {"None", "False", "0", ""}

\* dict.get(key): the value, or None when the key is absent
Get(d, k) == IF k \in DOMAIN d THEN d[k] ELSE None

\* mutation of a dict assignment: a key that is present keeps its value
Put_keep_existing(d, k, v) ==
    [x \in (DOMAIN d) \cup {k} |-> IF x \in DOMAIN d THEN d[x] ELSE v]

\* d[k] = v on a dict
Put(d, k, v) == [x \in (DOMAIN d) \cup {k} |-> IF x = k THEN v ELSE d[x]]

\* the empty dict
EmptyDict == [x \in {} |-> None]

\* a parameter for which the call passes no argument
Missing == "<missing>"

\* the value bound to a parameter: the argument, or the default when none is passed
Bind(arg, default) == IF arg = Missing THEN default ELSE arg

------------------------------------------------------------------------------
(* StructlogUtils stages *)

RECURSIVE censor_loop(_, _, _)
\* the body of the for loop of censor_logging, from position i of censor_keys
censor_loop(keys, i, event_dict) ==
    IF i > Len(keys) THEN event_dict
    ELSE LET key == keys[i]
             k == Get(event_dict, key)
         IN  censor_loop(keys, i + 1,
                 IF Truthy(k) THEN Put(event_dict, key, "*CENSORED*")
                 ELSE event_dict)

RECURSIVE censor_loop_adds_absent(_, _, _)
censor_loop_adds_absent(keys, i, event_dict) ==
    IF i > Len(keys) THEN event_dict
    ELSE censor_loop_adds_absent(keys, i + 1, Put(event_dict, keys[i], "*CENSORED*"))

\* mutation of censor_logging: assigns the sentinel without looking at the value
censor_logging_unconditional(censor_keys, event_dict) ==
    censor_loop_adds_absent(censor_keys, 1, event_dict)

\* StructlogUtils.censor_logging(_, __, event_dict) of an instance with censor_keys
censor_logging(censor_keys, event_dict) ==
    censor_loop(censor_keys, 1, event_dict)

\* mutation of get_file_path: the record is returned as received
get_file_path_skipped(file_path, event_dict) == event_dict

\* StructlogUtils.get_file_path(_, __, event_dict) of an instance with file_path
get_file_path(file_path, event_dict) ==
    Put(event_dict, "file_path", file_path)

------------------------------------------------------------------------------
(* The processor chain (base.py: _configure_processors) *)

\* RENDER_MAP[self.logging_variant]: the callable that ends the chain
RENDER_MAP(logging_variant) ==
    CASE logging_variant = "basic"   -> "JSONRenderer"
      [] logging_variant = "graylog" -> "graypy_structlog_processor"
      [] logging_variant = "test"    -> "LogCapture"

\* the nine structlog stages that open every chain, in list order
DEFAULT_TRACKERS ==
    << "add_logger_name", "add_log_level", "add_log_level_number",
       "filter_by_level", "PositionalArgumentsFormatter", "format_exc_info",
       "TimeStamper", "StackInfoRenderer", "UnicodeDecoder" >>

\* mutation of the processors list: the renderer placed ahead of censoring
processors_renderer_not_last(filters, logging_variant) ==
    DEFAULT_TRACKERS \o filters
        \o << "get_file_path", RENDER_MAP(logging_variant), "censor_logging" >>

\* mutation of the processors list: caller filters spliced in reverse, after get_file_path
processors_filters_misplaced(filters, logging_variant) ==
    DEFAULT_TRACKERS \o << "get_file_path" >>
        \o [i \in 1..Len(filters) |-> filters[Len(filters) + 1 - i]]
        \o << "censor_logging", RENDER_MAP(logging_variant) >>

\* mutation of the processors list: censoring placed ahead of the caller filters
processors_censor_first(filters, logging_variant) ==
    DEFAULT_TRACKERS \o << "censor_logging" >> \o filters
        \o << "get_file_path", RENDER_MAP(logging_variant) >>

\* the list literal `processors = [...]` with *self.filter_functions unpacked
processors_list(filters, logging_variant) ==
    DEFAULT_TRACKERS \o filters
        \o << "get_file_path", "censor_logging", RENDER_MAP(logging_variant) >>

\* mutation of _configure_processors: StructlogUtils() built without arguments
_configure_processors_default_utils(a, b) ==
    [ processors  |-> DEFAULT_TRACKERS \o heap[a.filter_functions]
                        \o << "get_file_path", "censor_logging",
                              RENDER_MAP(a.logging_variant) >>,
      censor_keys |-> "dflt_censor",
      file_path   |-> "",
      build       |-> b ]

\* RootLogger._configure_processors of a handle with attributes a; b names the
\* objects created by this call (the StructlogUtils instance and the renderer).
\* The StructlogUtils instance keeps a reference to the handle's censor_keys
\* list object and the value of file_path.
_configure_processors(a, b) ==
    [ processors  |-> processors_list(heap[a.filter_functions], a.logging_variant),
      censor_keys |-> a.censor_keys,
      file_path   |-> a.file_path,
      build       |-> b ]

------------------------------------------------------------------------------
(* Running a record through a chain (the call sequence f4(f3(f2(f1(...))))) *)

\* what flows between stages: an event_dict, a str, or an (args, kwargs) pair.
\* A "str" that is a JSON text carries in d the dict it serialises.
DictV(d)      == [shape |-> "dict",  d |-> d, s |-> ""]
StrV(s, d)    == [shape |-> "str",   d |-> d, s |-> s]
TupleV(s, d)  == [shape |-> "tuple", d |-> d, s |-> s]

Ok(v)         == [exc |-> "", v |-> v]
Raise(e, v)   == [exc |-> e, v |-> v]

\* structlog.stdlib._NAME_TO_LEVEL
NameToLevel ==
    [m \in {"debug", "info", "warning", "error"} |->
        CASE m = "debug" -> 10 [] m = "info" -> 20
          [] m = "warning" -> 30 [] m = "error" -> 40]

\* d with key k removed (dict.pop(k, None))
Pop(d, k) == [x \in (DOMAIN d) \ {k} |-> d[x]]

\* StructlogUtils.graypy_structlog_processor: args, kwargs = {'extra': event_dict}
graypy_structlog_processor(event_dict) ==
    LET e1 == Put(event_dict, "pid", "")
        e2 == Put(e1, "process_name", "")
        e3 == Put(e2, "thread_name", "")
        e4 == Put(e3, "file", "")
    IN  TupleV(IF "event" \in DOMAIN event_dict THEN event_dict["event"] ELSE "", e4)

\* One stage called as stage(logger, method_name, v). ctx = [name, method,
\* enabled]: the wrapped logger's name, the emit method and whether the
\* wrapped logger is enabled for the method's level.
proc(stage, chain, ctx, v) ==
    CASE stage = "add_logger_name" ->
            Ok(DictV(Put(v.d, "logger", ctx.name)))
      [] stage = "add_log_level" ->
            Ok(DictV(Put(v.d, "level", ctx.method)))
      [] stage = "add_log_level_number" ->
            Ok(DictV(Put(v.d, "level_number", ToString(NameToLevel[ctx.method]))))
      [] stage = "filter_by_level" ->
            IF ctx.enabled THEN Ok(v) ELSE Raise("DropEvent", v)
      [] stage = "PositionalArgumentsFormatter" ->
            Ok(DictV(Pop(v.d, "positional_args")))
      [] stage = "format_exc_info" ->
            Ok(DictV(Pop(v.d, "exc_info")))
      [] stage = "TimeStamper" ->
            Ok(DictV(Put(v.d, "timestamp", "<now>")))
      [] stage = "StackInfoRenderer" ->
            Ok(DictV(Pop(v.d, "stack_info")))
      [] stage = "UnicodeDecoder" ->
            Ok(v)
      \* caller-supplied stages
      [] stage = "valid_test_filter" ->
            IF v.shape = "dict" THEN Ok(DictV(Put(v.d, "is_valid", "True")))
            ELSE Raise("TypeError", v)
      [] stage = "filter_a" ->
            IF v.shape = "dict" THEN Ok(DictV(Put(v.d, "tag", "a")))
            ELSE Raise("TypeError", v)
      [] stage = "filter_b" ->
            IF v.shape = "dict" THEN Ok(DictV(Put(v.d, "tag", "b")))
            ELSE Raise("TypeError", v)
      [] stage = "invalid_test_filter_wrong_params" ->
            Raise("TypeError", v)
      [] stage = "invalid_test_filter_wrong_outputs" ->
            Ok(StrV("some test string", EmptyDict))
      \* the logging.Filter classes of utils.py, called as a stage: the class is
      \* instantiated with three arguments, its __init__ takes none
      [] stage \in {"CPU_Filter", "Memory_Filter", "DiskIO_Filter", "NetIO_Filter"} ->
            Raise("TypeError", v)
      \* StructlogUtils stages of the instance created with the chain
      [] stage = "get_file_path" ->
            IF v.shape = "dict" THEN Ok(DictV(get_file_path(chain.file_path, v.d)))
            ELSE Raise("TypeError", v)
      [] stage = "censor_logging" ->
            IF v.shape = "dict"
            THEN Ok(DictV(censor_logging(heap[chain.censor_keys], v.d)))
            ELSE IF heap[chain.censor_keys] = << >> THEN Ok(v)
            ELSE Raise("AttributeError", v)
      \* renderers
      [] stage = "JSONRenderer" ->
            Ok(StrV("json", v.d))
      [] stage = "graypy_structlog_processor" ->
            IF v.shape = "dict" THEN Ok(graypy_structlog_processor(v.d))
            ELSE Raise("AttributeError", v)
      [] stage = "LogCapture" ->
            IF v.shape = "dict"
            THEN Raise("DropEvent", DictV(Put(v.d, "log_level", ctx.method)))
            ELSE Raise("TypeError", v)

RECURSIVE run_skipping_input(_, _, _, _, _)
\* mutation of the chain run: every stage is handed the initial record
run_skipping_input(chain, ctx, i, v, trace) ==
    IF i > Len(chain.processors) THEN [exc |-> "", v |-> v, trace |-> trace]
    ELSE LET st == chain.processors[i]
             v0 == IF trace = << >> THEN v ELSE trace[1].in
             r  == proc(st, chain, ctx, v0)
             t  == Append(trace, [stage |-> st, in |-> v0, out |-> r.v, exc |-> r.exc])
         IN  IF r.exc # "" THEN [exc |-> r.exc, v |-> r.v, trace |-> t]
             ELSE run_skipping_input(chain, ctx, i + 1, r.v, t)

RECURSIVE run_from(_, _, _, _, _)
\* the stages i.. of the chain applied in list order, each to the value the
\* previous one returned; stops at the first stage that raises
run_from(chain, ctx, i, v, trace) ==
    IF i > Len(chain.processors) THEN [exc |-> "", v |-> v, trace |-> trace]
    ELSE LET st == chain.processors[i]
             r  == proc(st, chain, ctx, v)
             t  == Append(trace, [stage |-> st, in |-> v, out |-> r.v, exc |-> r.exc])
         IN  IF r.exc # "" THEN [exc |-> r.exc, v |-> r.v, trace |-> t]
             ELSE run_from(chain, ctx, i + 1, r.v, t)

------------------------------------------------------------------------------
(* Role configuration (config.py) *)

DIRECTOR_PREFIX   == "DIR"
TTP_PREFIX        == "TTP"
WORKER_PREFIX     == "WKR"
SYSMETRICS_PREFIX == "SYS"

\* Template(f"{PREFIX}_$name").safe_substitute(name=name)
DIRECTOR_NAME_TEMPLATE(name)   == DIRECTOR_PREFIX \o "_" \o name
TTP_NAME_TEMPLATE(name)        == TTP_PREFIX \o "_" \o name
WORKER_NAME_TEMPLATE(name)     == WORKER_PREFIX \o "_" \o name
SYSMETRICS_NAME_TEMPLATE(name) == SYSMETRICS_PREFIX \o "_" \o name

\* the ports, written like every other Python value
SYSMETRICS_PORT == "9100"
DIRECTOR_PORT   == "9200"
TTP_PORT        == "9300"
WORKER_PORT     == "9400"

\* the classes of general.py
Roles == {"DirectorLogger", "TTPLogger", "WorkerLogger", "SysmetricLogger"}

\* the list object bound to the default argument filter_functions=[] of the
\* __init__ of class cls
RoleDefaultFilters(cls) == cls \o "_dflt_filters"

------------------------------------------------------------------------------
(* Logger handles and the logging registry (base.py: RootLogger) *)

Handles == {"h1", "h2"}

\* the list object bound to the default argument filter_functions=[] and the
\* one bound to censor_keys=[]; every other id is a list a caller passed in
DefaultFilters == "dflt_filters"
DefaultCensor  == "dflt_censor"
\* the list object bound to the default argument censor_keys=[] of track()
TrackDefaultCensor == "track_dflt_censor"
OwnFilters(h)  == IF h = "h1" THEN "h1_filters" ELSE "h2_filters"
OwnCensor(h)   == IF h = "h1" THEN "h1_censor" ELSE "h2_censor"
ListIds == {DefaultFilters, DefaultCensor, TrackDefaultCensor} \cup
           {OwnFilters(h) : h \in Handles} \cup {OwnCensor(h) : h \in Handles} \cup
           {RoleDefaultFilters(cls) : cls \in Roles}

\* self.synlog = None
NoSynlog ==
    [logger |-> "", processors |-> << >>, censor_keys |-> "", file_path |-> "",
     build |-> 0]

\* RootLogger.__init__: the attributes of a new handle
RootLogger(logger_name, logging_variant, server, port, logging_level, filter_functions, censor_keys, file_path) ==
    [ logger_name      |-> logger_name,
      logging_level    |-> logging_level,
      logging_variant  |-> logging_variant,
      debugging_fields |-> FALSE,
      filter_functions |-> filter_functions,
      server           |-> server,
      port             |-> port,
      censor_keys      |-> censor_keys,
      file_path        |-> file_path ]

\* mutation of is_initialised: reports a handle as initialised from construction
is_initialised_always(h) == TRUE

\* RootLogger.is_initialised
is_initialised(h) == synlog[h] # NoSynlog

\* logging.Logger.getEffectiveLevel of the named logger (root stays at WARNING)
getEffectiveLevel(n) == IF levels[n] # 0 THEN levels[n] ELSE 30

\* logging.Logger.hasHandlers: the named logger or an ancestor has a handler
hasHandlers(n) == handlers[n] # << >> \/ rootHandlers

\* the handler object initialise() constructs for a handle with attributes a
\* in the call that builds chain b. The GELF handler stores host and port and
\* opens no connection before the first record is sent.
NewHandler(a, b) ==
    IF a.logging_variant = "graylog"
    THEN [kind |-> "GELFTCPHandler", host |-> a.server, port |-> a.port,
          debugging_fields |-> a.debugging_fields, id |-> b]
    ELSE [kind |-> "NullHandler", host |-> None, port |-> None,
          debugging_fields |-> FALSE, id |-> b]

\* mutation of the handler setup: a handler is appended without clearing
AttachHandler_no_clear(h, n) ==
    [handlers EXCEPT ![n] = Append(@, NewHandler(attrs[h], nbuilds + 1))]

\* mutation of the handler setup: the is_initialised guard is dropped
AttachHandler_unguarded(h, n) ==
    [handlers EXCEPT ![n] = << NewHandler(attrs[h], nbuilds + 1) >>]

\* lines 226-266 of initialise(): the handler list of logger n after the call
AttachHandler(h, n) ==
    IF ~ is_initialised(h)
    THEN [handlers EXCEPT ![n] =
            Append(IF hasHandlers(n) THEN << >> ELSE @,
                   NewHandler(attrs[h], nbuilds + 1))]
    ELSE handlers

\* the outcome of a call: the exception raised to the caller ("" if none), the
\* value returned, the stages that ran and the handlers the record was handed to
Outcome(op, h, exc, ret, trace, delivered) ==
    [op |-> op, h |-> h, exc |-> exc, ret |-> ret, trace |-> trace,
     delivered |-> delivered]

\* mutation of the rebinding: an initialised handle keeps its bound logger
Rebind_keep_first(h, n) ==
    IF is_initialised(h) THEN synlog[h]
    ELSE [logger |-> n] @@ _configure_processors(attrs[h], nbuilds + 1)

\* lines 269-278 of initialise(): the logger bound to self.synlog by the call
Rebind(h, n) ==
    [logger |-> n] @@ _configure_processors(attrs[h], nbuilds + 1)

\* mutation of the level setup: the threshold is set on first initialisation only
SetLevel_once(h, n) ==
    IF is_initialised(h) THEN levels
    ELSE [levels EXCEPT ![n] = attrs[h].logging_level]

\* lines 223-224 of initialise(): core_logger.setLevel(level=self.logging_level)
SetLevel(h, n) == [levels EXCEPT ![n] = attrs[h].logging_level]

\* RootLogger.initialise()
initialise(h) ==
    LET n == attrs[h].logger_name IN
    /\ nbuilds < MaxInit
    /\ levels' = SetLevel(h, n)
    /\ handlers' = AttachHandler(h, n)
    /\ synlog' = [synlog EXCEPT ![h] = Rebind(h, n)]
    /\ nbuilds' = nbuilds + 1
    /\ entries' = [entries EXCEPT ![h] = << >>]
    /\ last' = Outcome("initialise", h, "", synlog'[h], << >>, << >>)
    /\ UNCHANGED <<attrs, heap, rootHandlers, uK, uR, uOut, uPc, ctor, tracker, children, pc>>

------------------------------------------------------------------------------
(* Emission through the bound logger: handle.synlog.<method>(event, **fields) *)

\* the handler logging.basicConfig attaches to the root logger
RootHandler ==
    [kind |-> "StreamHandler", host |-> None, port |-> None,
     debugging_fields |-> FALSE, id |-> 0]

\* mutation of the record hand-over: only the first handler is called
callHandlers_first_only(n) ==
    IF handlers[n] = << >> THEN << >> ELSE << handlers[n][1] >>

\* logging.Logger.callHandlers on the named logger: its own handlers in order,
\* then (propagate is left on) the handler of the root logger
callHandlers(n) ==
    handlers[n] \o (IF rootHandlers THEN << RootHandler >> ELSE << >>)

\* mutation of the emit path: an unbound handle falls back to an empty chain
emit_unbound_lenient(h, method, fields) ==
    LET sl  == synlog[h]
        ctx == [name |-> attrs[h].logger_name, method |-> method, enabled |-> TRUE]
    IN  run_from(sl, ctx, 1, DictV(Put(fields, "event", "hello")), << >>)
            @@ [bound |-> is_initialised(h)]

\* mutation of the emit path: a TypeError raised by a stage is treated like a
\* dropped event
emit_run_swallows_errors(h, method, fields) ==
    LET sl  == synlog[h]
        ctx == [name |-> sl.logger, method |-> method,
                enabled |-> NameToLevel[method] >= getEffectiveLevel(sl.logger)]
        r   == run_from(sl, ctx, 1, DictV(Put(fields, "event", "hello")), << >>)
    IN  IF ~ is_initialised(h)
        THEN [exc |-> "AttributeError", v |-> DictV(EmptyDict), trace |-> << >>,
              bound |-> FALSE]
        ELSE [r EXCEPT !.exc = IF @ = "TypeError" THEN "DropEvent" ELSE @]
                @@ [bound |-> TRUE]

\* mutation of the emit path: the level filter lets every record through
emit_run_ignores_level(h, method, fields) ==
    LET sl  == synlog[h]
        ctx == [name |-> sl.logger, method |-> method, enabled |-> TRUE]
    IN  IF ~ is_initialised(h)
        THEN [exc |-> "AttributeError", v |-> DictV(EmptyDict), trace |-> << >>,
              bound |-> FALSE]
        ELSE run_from(sl, ctx, 1, DictV(Put(fields, "event", "hello")), << >>)
                @@ [bound |-> TRUE]

\* the chain run of one emit call on handle h: unbound (synlog is None, the
\* attribute lookup raises) or the result of the bound chain on the new record
emit_run(h, method, fields) ==
    LET sl  == synlog[h]
        ctx == [name |-> sl.logger, method |-> method,
                enabled |-> NameToLevel[method] >= getEffectiveLevel(sl.logger)]
    IN  IF ~ is_initialised(h)
        THEN [exc |-> "AttributeError", v |-> DictV(EmptyDict), trace |-> << >>,
              bound |-> FALSE]
        ELSE run_from(sl, ctx, 1, DictV(Put(fields, "event", "hello")), << >>)
                @@ [bound |-> TRUE]

\* handle.synlog.debug/info/warning/error("hello", **fields)
emit(h, method, fields) ==
    LET r  == emit_run(h, method, fields)
        sl == synlog[h]
        captured == /\ r.trace # << >>
                    /\ r.trace[Len(r.trace)].stage = "LogCapture"
                    /\ r.exc = "DropEvent"
        passed == r.bound /\ r.exc = ""
                    /\ NameToLevel[method] >= getEffectiveLevel(sl.logger)
    IN
    /\ captured => Len(entries[h]) < MaxEmit
    /\ entries' = IF captured
                  THEN [entries EXCEPT ![h] = Append(@, r.v.d)]
                  ELSE entries
    /\ last' = Outcome("emit", h, IF r.exc = "DropEvent" THEN "" ELSE r.exc,
                       NoSynlog, r.trace,
                       IF passed THEN callHandlers(sl.logger) ELSE << >>)
    /\ UNCHANGED <<attrs, heap, synlog, levels, handlers, rootHandlers,
                   nbuilds, uK, uR, uOut, uPc, ctor, tracker, children, pc>>

------------------------------------------------------------------------------
(* The caller's writes to the public attributes of a handle *)

\* handle.filter_functions.append(f), for a stage f not yet in the list
append_filter(h, f) ==
    /\ \A i \in DOMAIN heap[attrs[h].filter_functions] :
            heap[attrs[h].filter_functions][i] # f
    /\ heap' = [heap EXCEPT ![attrs[h].filter_functions] = Append(@, f)]
    /\ UNCHANGED <<attrs, synlog, levels, handlers, rootHandlers, entries,
                   nbuilds, last, uK, uR, uOut, uPc, ctor, tracker, children, pc>>

\* handle.censor_keys.append(k), for a key k not yet in the list
append_censor_key(h, k) ==
    /\ \A i \in DOMAIN heap[attrs[h].censor_keys] :
            heap[attrs[h].censor_keys][i] # k
    /\ heap' = [heap EXCEPT ![attrs[h].censor_keys] = Append(@, k)]
    /\ UNCHANGED <<attrs, synlog, levels, handlers, rootHandlers, entries,
                   nbuilds, last, uK, uR, uOut, uPc, ctor, tracker, children, pc>>

\* handle.file_path = p
set_file_path(h, p) ==
    /\ attrs[h].file_path # p
    /\ attrs' = [attrs EXCEPT ![h].file_path = p]
    /\ UNCHANGED <<heap, synlog, levels, handlers, rootHandlers, entries,
                   nbuilds, last, uK, uR, uOut, uPc, ctor, tracker, children, pc>>

\* handle.logging_level = lv
set_logging_level(h, lv) ==
    /\ attrs[h].logging_level # lv
    /\ attrs' = [attrs EXCEPT ![h].logging_level = lv]
    /\ UNCHANGED <<heap, synlog, levels, handlers, rootHandlers, entries,
                   nbuilds, last, uK, uR, uOut, uPc, ctor, tracker, children, pc>>

\* logging.basicConfig(...) by the application: the root logger gets a handler
basicConfig ==
    /\ ~ rootHandlers
    /\ rootHandlers' = TRUE
    /\ UNCHANGED <<attrs, heap, synlog, levels, handlers, entries,
                   nbuilds, last, uK, uR, uOut, uPc, ctor, tracker, children, pc>>

------------------------------------------------------------------------------
(* One handle: construction, (re)initialisation, reconfiguration, emission *)

HOST == "127.0.0.1"
PORT == "12201"

\* the constructor calls of the test fixtures, and graylog handles that lack
\* server or port; lists are the shared default objects or the caller's own
Constructed(h, names) ==
    { RootLogger(n, c[1], c[2], c[3], 20, l[1], l[2], "") :
        n \in names,
        c \in { <<"basic", None, None>>, <<"test", None, None>>,
                <<"graylog", HOST, PORT>>, <<"graylog", None, None>>,
                <<"graylog", HOST, None>> },
        l \in { <<DefaultFilters, DefaultCensor>>, <<OwnFilters(h), OwnCensor(h)>> } }

\* the state shared by every specification right after construction
Fresh ==
    /\ synlog = [h \in Handles |-> NoSynlog]
    /\ levels = [n \in {"std_log", "test_local_logger"} |-> 0]
    /\ handlers = [n \in {"std_log", "test_local_logger"} |-> << >>]
    /\ rootHandlers = FALSE
    /\ entries = [h \in Handles |-> << >>]
    /\ nbuilds = 0
    /\ last = Outcome("construct", "h1", "", NoSynlog, << >>, << >>)
    /\ ctor = [h \in Handles |->
                [cls |-> "RootLogger", server |-> Missing, logger_name |-> Missing,
                 logging_variant |-> Missing]]
    /\ tracker = [h \in Handles |-> None]
    /\ children = << >>
    /\ pc = [h \in Handles |-> "idle"]

Idle ==
    /\ uK = << >> /\ uR = EmptyDict /\ uOut = EmptyDict /\ uPc = "idle"

Init ==
    /\ attrs \in [Handles -> Constructed("h1", {"std_log"})]
    /\ attrs["h2"] = RootLogger("std_log", "basic", None, None, 20,
                                DefaultFilters, DefaultCensor, "")
    /\ heap = [l \in ListIds |-> << >>]
    /\ Fresh
    /\ Idle

Next ==
    \/ initialise("h1")
    \/ \E m \in {"debug", "info"} :
          emit("h1", m, [k \in {"password"} |-> "hunter2"])
    \/ append_filter("h1", "valid_test_filter")
    \/ append_censor_key("h1", "password")
    \/ \E lv \in {20, 30} : set_logging_level("h1", lv)
    \/ \E p \in {"", "/path/to/testfile"} : set_file_path("h1", p)

Spec == Init /\ [][Next]_vars

------------------------------------------------------------------------------
(* One handle with a fixed configuration: chains of every variant and shape *)

\* filter_functions lists handed to the constructor
FilterLists ==
    { << >>, << "valid_test_filter" >>,
      << "filter_a", "filter_b" >>, << "filter_b", "filter_a" >>,
      << "invalid_test_filter_wrong_params" >>,
      << "filter_a", "invalid_test_filter_wrong_outputs" >>,
      << "invalid_test_filter_wrong_outputs", "filter_b" >> }

\* censor_keys lists handed to the constructor
CensorLists == { << >>, << "password" >>, << "tag", "file_path", "password" >> }

InitChain ==
    /\ Fresh
    /\ Idle
    /\ \E v \in {"basic", "graylog", "test"} :
          attrs = [h \in Handles |->
                      RootLogger("std_log", v, HOST, PORT, 20,
                                 OwnFilters(h), OwnCensor(h), "/path/to/testfile")]
    /\ \E fl \in FilterLists, cl \in CensorLists :
          heap = [l \in ListIds |->
                      CASE l = OwnFilters("h1") -> fl
                        [] l = OwnCensor("h1")  -> cl
                        [] OTHER -> << >>]

FieldsChain ==
    { EmptyDict,
      [k \in {"password"} |-> "hunter2"],
      [k \in {"password", "tag"} |-> IF k = "tag" THEN "mine" ELSE ""],
      [k \in {"logger", "x"} |-> IF k = "x" THEN "42" ELSE "mine"] }

NextChain ==
    \/ initialise("h1")
    \/ \E m \in {"debug", "info"}, f \in FieldsChain : emit("h1", m, f)

SpecChain == InitChain /\ [][NextChain]_vars

\* the last stage of a stage list
Last(seq) == seq[Len(seq)]

\* C1: for every supported variant and every list of caller-supplied filter
\* stages, the renderer of the variant is the last element of the chain that
\* _configure_processors returns and of the chain initialise() binds, and it
\* occurs at no earlier position.
C1_RendererIsLast ==
    \A h \in Handles :
        LET built    == _configure_processors(attrs[h], nbuilds + 1).processors
            renderer == CASE attrs[h].logging_variant = "basic" -> "JSONRenderer"
                          [] attrs[h].logging_variant = "graylog" ->
                                "graypy_structlog_processor"
                          [] attrs[h].logging_variant = "test" -> "LogCapture"
        IN  /\ Last(built) = renderer
            /\ \A i \in 1..(Len(built) - 1) : built[i] # renderer
            /\ is_initialised(h) =>
                  /\ Last(synlog[h].processors) = renderer
                  /\ \A i \in 1..(Len(synlog[h].processors) - 1) :
                        synlog[h].processors[i] # renderer

\* a graylog handle with two caller filters has just been initialised
C1_Witness ==
    /\ last.op = "initialise" /\ last.h = "h1"
    /\ attrs["h1"].logging_variant = "graylog"
    /\ Len(heap[attrs["h1"].filter_functions]) = 2
    /\ Last(synlog["h1"].processors) = "graypy_structlog_processor"

\* C2: within one emit call the stages run in the order logger name, level
\* name, level number, level filter, positional arguments, exception info,
\* timestamp, stack info, text decoding, the caller-supplied filters in the
\* order supplied, file path, censoring, renderer; the first stage receives
\* the new record and every later one the value its predecessor returned.
C2_StagesRunInOrder ==
    (last.op = "emit" /\ last.trace # << >>) =>
        LET t  == last.trace
            fs == heap[attrs[last.h].filter_functions]
            nf == Len(fs)
            fixed == << "add_logger_name", "add_log_level", "add_log_level_number",
                        "filter_by_level", "PositionalArgumentsFormatter",
                        "format_exc_info", "TimeStamper", "StackInfoRenderer",
                        "UnicodeDecoder" >>
        IN  /\ Len(t) <= 9 + nf + 3
            /\ \A i \in 1..Len(t) :
                  /\ i <= 9 => t[i].stage = fixed[i]
                  /\ (9 < i /\ i <= 9 + nf) => t[i].stage = fs[i - 9]
                  /\ i = 9 + nf + 1 => t[i].stage = "get_file_path"
                  /\ i = 9 + nf + 2 => t[i].stage = "censor_logging"
                  /\ i = 9 + nf + 3 =>
                        t[i].stage \in {"JSONRenderer", "graypy_structlog_processor",
                                        "LogCapture"}
                  /\ i > 1 => t[i].in = t[i - 1].out
                  /\ i < Len(t) => t[i].exc = ""
            /\ t[1].in.shape = "dict" /\ "event" \in DOMAIN t[1].in.d

\* an emit ran a whole chain holding two caller filters, in the order supplied
C2_Witness ==
    /\ last.op = "emit" /\ last.exc = ""
    /\ Len(last.trace) = 14
    /\ last.trace[10].stage = "filter_b" /\ last.trace[11].stage = "filter_a"
    /\ last.trace[11].out.d["tag"] = "a"
    /\ last.trace[14].stage = "JSONRenderer"

------------------------------------------------------------------------------
(* StructlogUtils.censor_logging applied to arbitrary censor_keys and records *)

CensorKeys == {"server", "port", "kwargs_test_int", "absent_key"}

RECURSIVE SeqsUpTo(_, _)
\* the sequences over S of length at most n
SeqsUpTo(S, n) ==
    IF n = 0 THEN { << >> }
    ELSE LET shorter == SeqsUpTo(S, n - 1)
         IN  shorter \cup { Append(q, x) : q \in shorter, x \in S }

\* event_dicts over the keys of the event_kwargs fixture, each key absent or
\* holding a truthy or a falsy value
EventDicts ==
    UNION { [D -> {"test_string", "0", ""}] :
              D \in SUBSET {"server", "port", "kwargs_test_int"} }

InitCensor ==
    /\ attrs = [h \in Handles |->
                  RootLogger("std_log", "basic", None, None, 20,
                             DefaultFilters, DefaultCensor, "")]
    /\ heap = [l \in ListIds |-> << >>]
    /\ Fresh
    /\ uK \in SeqsUpTo(CensorKeys, MaxCensorKeys)
    /\ uR \in EventDicts
    /\ uOut = EmptyDict
    /\ uPc = "ready"

\* StructlogUtils(censor_keys=uK).censor_logging(logger, method, event_dict=uR)
call_censor_logging ==
    /\ uPc = "ready"
    /\ uOut' = censor_logging(uK, uR)
    /\ uPc' = "done"
    /\ UNCHANGED <<attrs, heap, synlog, levels, handlers, rootHandlers, entries,
                   nbuilds, last, uK, uR, ctor, tracker, children, pc>>

NextCensor == call_censor_logging

SpecCensor == InitCensor /\ [][NextCensor]_vars

\* the set of keys listed in censor_keys
KeySet(keys) == { keys[i] : i \in DOMAIN keys }

\* C3: for all censor-key lists K and records R, after censor_logging every
\* key of K present in R maps to "*CENSORED*" and every key of R not in K
\* keeps its value.
C3_EveryPresentKeyCensored ==
    uPc = "done" =>
        /\ \A k \in KeySet(uK) \cap DOMAIN uR :
              k \in DOMAIN uOut /\ uOut[k] = "*CENSORED*"
        /\ \A k \in (DOMAIN uR) \ KeySet(uK) :
              k \in DOMAIN uOut /\ uOut[k] = uR[k]

------------------------------------------------------------------------------
(* Claims about (re)initialisation of one handle, checked under Spec *)

\* the step is a call of initialise() on handle h
InitialiseStep(h) ==
    /\ nbuilds' = nbuilds + 1
    /\ last'.op = "initialise" /\ last'.h = h

C8_InitialisedIffBound ==
    /\ \A h \in Handles : ~ is_initialised(h)
    /\ [][ \A h \in Handles :
            /\ is_initialised(h) <=> synlog[h].processors # << >>
            /\ is_initialised(h)' <=> synlog'[h].processors # << >>
            /\ (~ is_initialised(h) /\ is_initialised(h)') => InitialiseStep(h)
            /\ InitialiseStep(h) => is_initialised(h)'
            /\ is_initialised(h) => is_initialised(h)' ]_vars

\* an initialised handle has been reconfigured and used after initialise()
C8_Witness ==
    /\ is_initialised("h1")
    /\ last.op = "emit" /\ last.h = "h1" /\ last.exc = ""
    /\ heap[attrs["h1"].filter_functions] # << >>
    /\ Len(synlog["h1"].processors) = 12

\* C9: when the variant is not basic and server or port is missing,
\* initialise() fails with an error and the handle stays uninitialised.
C9_MissingEndpointFailsInitialise ==
    \A h \in Handles :
        (attrs[h].logging_variant # "basic"
            /\ (attrs[h].server = None \/ attrs[h].port = None)) =>
        /\ ~ is_initialised(h)
        /\ (last.op = "initialise" /\ last.h = h) => last.exc # ""

\* C10: an emit call on a handle that was never initialised fails with an
\* error raised to the caller; no stage runs, nothing is handed to a handler
\* and nothing is captured.
C10_EmitBeforeInitialiseFails ==
    (last.op = "emit" /\ ~ is_initialised(last.h)) =>
        /\ last.exc = "AttributeError"
        /\ last.trace = << >>
        /\ last.delivered = << >>
        /\ entries[last.h] = << >>
        /\ nbuilds = 0

\* an emit call was made on a constructed handle that is not initialised
C10_Witness ==
    /\ last.op = "emit" /\ last.h = "h1"
    /\ ~ is_initialised("h1")
    /\ last.exc # ""

------------------------------------------------------------------------------
(* Two handles that may share a logger name, and the root logger *)

InitShared ==
    /\ attrs \in
         [Handles ->
            { RootLogger(n, c[1], c[2], c[3], lv, DefaultFilters, DefaultCensor, "") :
                n \in {"std_log", "test_local_logger"}, lv \in {10, 20},
                c \in { <<"basic", None, None>>, <<"test", None, None>>,
                        <<"graylog", HOST, PORT>> } }]
    /\ attrs["h1"].logger_name = "std_log" /\ attrs["h1"].logging_level = 20
    /\ heap = [l \in ListIds |-> << >>]
    /\ Fresh
    /\ Idle

NextShared ==
    \/ \E h \in Handles : initialise(h)
    \/ \E h \in Handles, m \in {"debug", "info"} : emit(h, m, EmptyDict)
    \/ basicConfig

SpecShared == InitShared /\ [][NextShared]_vars

\* the handlers of the named logger itself among those a record was handed to
OwnDelivered == { i \in DOMAIN last.delivered : last.delivered[i].id # 0 }

\* C7 as stated: after any sequence of initialise() calls, on one handle or on
\* handles that share a logger name, the named logger has at most one handler,
\* so a record passed on by an emit call is never handed to two handlers.
C7_NeverTwoSinks ==
    /\ \A n \in DOMAIN handlers : Len(handlers[n]) <= 1
    /\ last.op = "emit" => Len(last.delivered) <= 1

\* C7 amended: after any sequence of initialise() calls, on one handle or on
\* handles that share a logger name, the named logger has at most one handler
\* of its own; the handler of a first-time initialise() replaces the ones
\* attached before, and a record passed on by an emit call is handed to at
\* most one handler of the named logger (a handler of the root logger still
\* receives it as well).
C7_AtMostOneOwnSink ==
    /\ \A n \in DOMAIN handlers : Len(handlers[n]) <= 1
    /\ \A h \in Handles :
          is_initialised(h) => Len(handlers[attrs[h].logger_name]) = 1
    /\ (last.op = "initialise" /\ handlers[attrs[last.h].logger_name] # << >>) =>
          handlers[attrs[last.h].logger_name][1].id <= synlog[last.h].build
    /\ last.op = "emit" =>
          /\ Cardinality(OwnDelivered) <= 1
          /\ Len(last.delivered) <= 2

\* both handles share a name and were initialised; the handler of the second
\* one is the only handler of the named logger, and a record was handed to it
\* and to the root handler
C7_Witness ==
    /\ attrs["h1"].logger_name = attrs["h2"].logger_name
    /\ is_initialised("h1") /\ is_initialised("h2")
    /\ synlog["h1"].build = 1 /\ synlog["h2"].build = 2
    /\ handlers["std_log"] # << >> /\ handlers["std_log"][1].id = 2
    /\ last.op = "emit" /\ Len(last.delivered) = 2
    /\ last.delivered[1].id = 2

------------------------------------------------------------------------------
(* Claims about one emit call, checked on chains of every variant *)

\* the step is an emit call on handle h (one that repeats the previous outcome
\* and captures nothing leaves the state as it is)
EmitStep(h) ==
    /\ last'.op = "emit" /\ last'.h = h
    /\ <<last, entries>>' # <<last, entries>>
    /\ nbuilds' = nbuilds

\* caller-supplied stages that break the processor signature
InvalidFilters ==
    {"invalid_test_filter_wrong_params", "invalid_test_filter_wrong_outputs"}

\* the stages that end a chain
Renderers == {"JSONRenderer", "graypy_structlog_processor", "LogCapture"}

\* C11: when an emit call reaches a caller-supplied stage that takes the wrong
\* number of parameters or returns something that is not a mapping, the call
\* raises TypeError to the caller (at that stage or at the stage that is handed
\* its return value); the renderer does not run, nothing is captured and
\* nothing is handed to a handler.
C11_InvalidFilterRaisesTypeError ==
    [][ \A h \in Handles : EmitStep(h) =>
            LET t == last'.trace IN
            (\E i \in DOMAIN t : t[i].stage \in InvalidFilters) =>
                /\ last'.exc = "TypeError"
                /\ \A i \in DOMAIN t : t[i].stage \notin Renderers
                /\ \E i \in DOMAIN t :
                      /\ t[i].stage \in InvalidFilters
                      /\ Len(t) \in {i, i + 1}
                /\ entries' = entries
                /\ last'.delivered = << >> ]_vars

\* an emit call ran a stage that returned a string; the stage after it raised
C11_Witness ==
    /\ last.op = "emit" /\ last.exc = "TypeError"
    /\ Len(last.trace) = 12
    /\ last.trace[11].stage = "invalid_test_filter_wrong_outputs"
    /\ last.trace[11].exc = "" /\ last.trace[11].out.shape = "str"
    /\ last.trace[12].stage = "get_file_path" /\ last.trace[12].exc = "TypeError"

------------------------------------------------------------------------------
(* The level filter, checked on handles that may share a logger name *)

\* the emit method of the call recorded in outcome o, as the add_log_level
\* stage wrote it into the record
MethodOf(o) == o.trace[2].out.d["level"]

\* the record of the call recorded in outcome o was dropped by the level filter:
\* filter_by_level is the last stage that ran, no error reached the caller and
\* no handler was called
DroppedByLevel(o) ==
    /\ Len(o.trace) = 4
    /\ o.trace[4].stage = "filter_by_level" /\ o.trace[4].exc = "DropEvent"
    /\ o.exc = ""
    /\ o.delivered = << >>

\* C12 as stated: an emit call whose level is below the handle's configured
\* threshold (its logging_level) is dropped by the level filter: no later
\* stage runs, nothing is handed to a handler or captured, and the call
\* returns without error.
C12_BelowHandleThresholdDropped ==
    [][ \A h \in Handles : (EmitStep(h) /\ synlog[h] # NoSynlog) =>
            (NameToLevel[MethodOf(last')] < attrs[h].logging_level =>
                DroppedByLevel(last') /\ entries' = entries) ]_vars

\* C12 amended: the threshold the level filter applies is the one of the named
\* logger in the registry, which is the logging_level of the handle whose
\* initialise() ran last under that name. An emit call below that threshold is
\* dropped by the level filter (no later stage runs, nothing is handed to a
\* handler or captured, no error); a call at or above it passes the filter,
\* whatever the logging_level of the handle it is made on.
C12_BelowLoggerThresholdDropped ==
    [][ \A h \in Handles : (EmitStep(h) /\ synlog[h] # NoSynlog) =>
            LET n == attrs[h].logger_name
                threshold == IF levels[n] # 0 THEN levels[n] ELSE 30
            IN  /\ \E g \in Handles :
                      /\ attrs[g].logger_name = n /\ synlog[g] # NoSynlog
                      /\ threshold = attrs[g].logging_level
                      /\ \A k \in Handles :
                            attrs[k].logger_name = n => synlog[k].build <= synlog[g].build
                /\ IF NameToLevel[MethodOf(last')] < threshold
                   THEN DroppedByLevel(last') /\ entries' = entries
                   ELSE Len(last'.trace) > 4 /\ last'.trace[4].exc = "" ]_vars

\* a debug call on a handle configured for DEBUG was dropped at the level
\* filter, the threshold of the shared named logger being INFO
C12_Witness ==
    /\ last.op = "emit" /\ last.h = "h2" /\ is_initialised("h2")
    /\ MethodOf(last) = "debug"
    /\ attrs["h2"].logging_level = 10
    /\ levels[attrs["h2"].logger_name] = 20
    /\ DroppedByLevel(last)

------------------------------------------------------------------------------
(* StructlogUtils.graypy_structlog_processor applied to arbitrary records *)

\* records with or without an event, a caller field, and fields that carry the
\* names of graypy's metadata; "42" is the integer 42
GraypyDicts ==
    UNION { [D -> {"hello", "42"}] : D \in SUBSET {"event", "x", "function", "pid"} }

\* isinstance(v, str)
IsStr(v) == v \notin {"None", "True", "False", "0", "42"}

InitGraypy ==
    /\ attrs = [h \in Handles |->
                  RootLogger("std_log", "graylog", HOST, PORT, 20,
                             DefaultFilters, DefaultCensor, "")]
    /\ heap = [l \in ListIds |-> << >>]
    /\ Fresh
    /\ uK = << >>
    /\ uR \in GraypyDicts
    /\ uOut = EmptyDict
    /\ uPc = "ready"

\* args, kwargs = StructlogUtils().graypy_structlog_processor(logger, method, event_dict=uR)
call_graypy_structlog_processor ==
    /\ uPc = "ready"
    /\ uOut' = LET r == graypy_structlog_processor(uR)
               IN  [args |-> << r.s >>, kwargs |-> [extra |-> r.d]]
    /\ uPc' = "rendered"
    /\ UNCHANGED <<attrs, heap, synlog, levels, handlers, rootHandlers, entries,
                   nbuilds, last, uK, uR, ctor, tracker, children, pc>>

NextGraypy == call_graypy_structlog_processor

SpecGraypy == InitGraypy /\ [][NextGraypy]_vars

\* C13: for every record the graylog renderer returns (args, kwargs) where args
\* is the 1-tuple of the record's event field ("" when absent) and
\* kwargs["extra"] holds every field of the record and the five metadata
\* fields pid, process_name, thread_name, file and function, each present with
\* a string value.
C13_FiveMetadataFieldsForced ==
    uPc = "rendered" =>
        LET extra == uOut.kwargs.extra IN
        /\ uOut.args = << IF "event" \in DOMAIN uR THEN uR["event"] ELSE "" >>
        /\ DOMAIN uR \subseteq DOMAIN extra
        /\ \A k \in {"pid", "process_name", "thread_name", "file", "function"} :
              k \in DOMAIN extra /\ IsStr(extra[k])

------------------------------------------------------------------------------
(* Capture by the test variant, checked on chains of every shape *)

\* the fields the chain itself writes into every record
ReservedKeys ==
    {"logger", "level", "level_number", "timestamp", "file_path", "log_level"}

\* the fields a caller-supplied stage assigns
FilterWrites(f) ==
    CASE f = "valid_test_filter" -> {"is_valid"}
      [] f \in {"filter_a", "filter_b"} -> {"tag"}
      [] OTHER -> {}

\* the record the step appended to the capture list of h
Captured(h) == entries'[h][Len(entries'[h])]

\* the step is an emit call on a bound test-variant handle h that passed the
\* level filter and in which no stage raised an error
CapturingStep(h) ==
    /\ EmitStep(h) /\ synlog[h] # NoSynlog
    /\ attrs[h].logging_variant = "test"
    /\ NameToLevel[MethodOf(last')] >= getEffectiveLevel(attrs[h].logger_name)
    /\ last'.exc = ""

\* the value the chain of h writes under its own key k in the call with
\* outcome o
AutoValue(h, k, o) ==
    CASE k = "logger"       -> attrs[h].logger_name
      [] k = "level"        -> MethodOf(o)
      [] k = "level_number" -> ToString(NameToLevel[MethodOf(o)])
      [] k = "timestamp"    -> "<now>"
      [] k = "file_path"    -> synlog[h].file_path

\* the value v of key k as it leaves the censoring stage of the chain of h
Sentinelled(h, k, v) ==
    IF Truthy(v) /\ \E i \in DOMAIN heap[attrs[h].censor_keys] :
                        heap[attrs[h].censor_keys][i] = k
    THEN CENSOR ELSE v

\* the step appends one record to the capture list of h, which holds the
\* chain's own fields for this call
AppendsRecord(h) ==
    /\ Len(entries'[h]) = Len(entries[h]) + 1
    /\ \A i \in DOMAIN entries[h] : entries'[h][i] = entries[h][i]
    /\ {"event", "logger", "level", "level_number", "timestamp", "file_path"}
            \subseteq DOMAIN Captured(h)
    /\ Captured(h)["event"] = last'.trace[1].in.d["event"]
    /\ \A k \in {"logger", "level", "level_number", "timestamp", "file_path"} :
          Captured(h)[k] = Sentinelled(h, k, AutoValue(h, k, last'))

------------------------------------------------------------------------------
(* Role loggers (general.py): construction, then initialisation and emission *)

\* the attributes of a handle whose constructor has not returned
Unconstructed ==
    RootLogger("", "", None, None, 0, DefaultFilters, DefaultCensor, "")

\* DirectorLogger.__init__ (censor_keys is not passed on: RootLogger's default)
DirectorLogger(server, logger_name, logging_level, logging_variant, filter_functions, file_path) ==
    RootLogger(DIRECTOR_NAME_TEMPLATE(logger_name), logging_variant, server,
               DIRECTOR_PORT, logging_level, filter_functions, DefaultCensor, file_path)

\* mutation of TTPLogger.__init__: the port of another role is passed on
TTPLogger_director_port(server, logger_name, logging_level, logging_variant, filter_functions, file_path) ==
    RootLogger(TTP_NAME_TEMPLATE(logger_name), logging_variant, server,
               DIRECTOR_PORT, logging_level, filter_functions, DefaultCensor, file_path)

\* TTPLogger.__init__
TTPLogger(server, logger_name, logging_level, logging_variant, filter_functions, file_path) ==
    RootLogger(TTP_NAME_TEMPLATE(logger_name), logging_variant, server,
               TTP_PORT, logging_level, filter_functions, DefaultCensor, file_path)

\* WorkerLogger.__init__
WorkerLogger(server, logger_name, logging_level, logging_variant, filter_functions, file_path) ==
    RootLogger(WORKER_NAME_TEMPLATE(logger_name), logging_variant, server,
               WORKER_PORT, logging_level, filter_functions, DefaultCensor, file_path)

\* self.__DEFAULT_FILTERS of SysmetricLogger
DEFAULT_FILTERS == << "CPU_Filter", "Memory_Filter", "DiskIO_Filter", "NetIO_Filter" >>

\* SysmetricLogger.__init__; all_filters names the new list object that holds
\* __DEFAULT_FILTERS + filter_functions
SysmetricLogger(server, logger_name, logging_level, logging_variant, all_filters, file_path) ==
    RootLogger(SYSMETRICS_NAME_TEMPLATE(logger_name), logging_variant, server,
               SYSMETRICS_PORT, logging_level, all_filters, DefaultCensor, file_path)

\* cls(server=..., logger_name=..., logging_variant=...) bound to handle h; an
\* argument may be left out. server and logger_name have no default, so a call
\* without one of them raises TypeError before __init__ runs.
new_role_logger(h, cls, server, logger_name, logging_variant) ==
    LET variant == Bind(logging_variant, "graylog")
        filters == RoleDefaultFilters(cls)
        made == CASE cls = "DirectorLogger" ->
                        DirectorLogger(server, logger_name, 20, variant, filters, "")
                  [] cls = "TTPLogger" ->
                        TTPLogger(server, logger_name, 20, variant, filters, "")
                  [] cls = "WorkerLogger" ->
                        WorkerLogger(server, logger_name, 20, variant, filters, "")
                  [] cls = "SysmetricLogger" ->
                        SysmetricLogger(server, logger_name, 20, variant, OwnFilters(h), "")
        ok == server # Missing /\ logger_name # Missing
    IN
    /\ ctor[h].cls = ""
    /\ ctor' = [ctor EXCEPT ![h] =
                  [cls |-> cls, server |-> server, logger_name |-> logger_name,
                   logging_variant |-> logging_variant]]
    /\ attrs' = IF ok THEN [attrs EXCEPT ![h] = made] ELSE attrs
    /\ heap' = IF ok /\ cls = "SysmetricLogger"
               THEN [heap EXCEPT ![OwnFilters(h)] = DEFAULT_FILTERS \o heap[filters]]
               ELSE heap
    /\ tracker' = IF ok /\ cls = "SysmetricLogger"
                  THEN [tracker EXCEPT ![h] = None] ELSE tracker
    /\ last' = Outcome("construct", h, IF ok THEN "" ELSE "TypeError", NoSynlog,
                       << >>, << >>)
    /\ UNCHANGED <<synlog, levels, handlers, rootHandlers, entries, nbuilds,
                   uK, uR, uOut, uPc, children, pc>>

\* the labels callers give
Labels == {"a", "TTP_a"}

\* the logger names role loggers can have
RoleNames ==
    { DIRECTOR_NAME_TEMPLATE(l) : l \in Labels } \cup { TTP_NAME_TEMPLATE(l) : l \in Labels }
        \cup { WORKER_NAME_TEMPLATE(l) : l \in Labels }
        \cup { SYSMETRICS_NAME_TEMPLATE(l) : l \in Labels }

InitRoles ==
    /\ attrs = [h \in Handles |-> Unconstructed]
    /\ heap = [l \in ListIds |-> << >>]
    /\ synlog = [h \in Handles |-> NoSynlog]
    /\ levels = [n \in RoleNames |-> 0]
    /\ handlers = [n \in RoleNames |-> << >>]
    /\ rootHandlers = FALSE
    /\ entries = [h \in Handles |-> << >>]
    /\ nbuilds = 0
    /\ last = Outcome("start", "h1", "", NoSynlog, << >>, << >>)
    /\ ctor = [h \in Handles |->
                [cls |-> "", server |-> Missing, logger_name |-> Missing,
                 logging_variant |-> Missing]]
    /\ tracker = [h \in Handles |-> None]
    /\ children = << >>
    /\ pc = [h \in Handles |-> "idle"]
    /\ Idle

NextRoles ==
    \/ \E h \in Handles, cls \in Roles, sv \in {Missing, HOST}, l \in Labels,
          v \in {Missing, "test"} :
          new_role_logger(h, cls, sv, l, v)
    \/ \E h \in Handles : attrs[h] # Unconstructed /\ initialise(h)
    \/ \E h \in Handles : attrs[h] # Unconstructed /\ emit(h, "info", EmptyDict)

SpecRoles == InitRoles /\ [][NextRoles]_vars

\* C15: a role logger built from label l has the name "<prefix>_l" of its role
\* (DIR, TTP, WKR, SYS) and its role's port (9200, 9300, 9400, 9100); the four
\* ports and the four prefixes are pairwise different, and two role loggers of
\* different roles share neither name nor port.
C15_RoleNameAndPort ==
    /\ Cardinality({DIRECTOR_PORT, TTP_PORT, WORKER_PORT, SYSMETRICS_PORT}) = 4
    /\ Cardinality({DIRECTOR_PREFIX, TTP_PREFIX, WORKER_PREFIX, SYSMETRICS_PREFIX}) = 4
    /\ \A h \in Handles : attrs[h] # Unconstructed =>
          LET cls == ctor[h].cls
              prefix == CASE cls = "DirectorLogger" -> "DIR"
                          [] cls = "TTPLogger" -> "TTP"
                          [] cls = "WorkerLogger" -> "WKR"
                          [] cls = "SysmetricLogger" -> "SYS"
              port == CASE cls = "DirectorLogger" -> "9200"
                        [] cls = "TTPLogger" -> "9300"
                        [] cls = "WorkerLogger" -> "9400"
                        [] cls = "SysmetricLogger" -> "9100"
          IN  /\ attrs[h].logger_name = prefix \o "_" \o ctor[h].logger_name
              /\ attrs[h].port = port
    /\ \A h, g \in Handles :
          (attrs[h] # Unconstructed /\ attrs[g] # Unconstructed
                /\ ctor[h].cls # ctor[g].cls) =>
              /\ attrs[h].logger_name # attrs[g].logger_name
              /\ attrs[h].port # attrs[g].port

\* a Director labelled "TTP_a" and a TTP logger labelled "a" exist side by side
C15_Witness ==
    /\ ctor["h1"].cls = "DirectorLogger" /\ ctor["h1"].logger_name = "TTP_a"
    /\ ctor["h2"].cls = "TTPLogger" /\ ctor["h2"].logger_name = "a"
    /\ attrs["h1"].logger_name = "DIR_TTP_a" /\ attrs["h1"].port = "9200"
    /\ attrs["h2"].logger_name = "TTP_a" /\ attrs["h2"].port = "9300"

\* C16: a Director, TTP or Worker logger built from a label alone exists and
\* has logging_variant "basic", server None, logging_level INFO,
\* debugging_fields false, and empty filter_functions and censor_keys lists.
C16_RoleDefaultsFromLabelAlone ==
    \A h \in Handles :
        (ctor[h].cls \in {"DirectorLogger", "TTPLogger", "WorkerLogger"}
            /\ ctor[h].logger_name # Missing
            /\ ctor[h].server = Missing /\ ctor[h].logging_variant = Missing) =>
        /\ attrs[h] # Unconstructed
        /\ attrs[h].logging_variant = "basic"
        /\ attrs[h].server = None
        /\ attrs[h].logging_level = 20
        /\ attrs[h].debugging_fields = FALSE
        /\ heap[attrs[h].filter_functions] = << >>
        /\ heap[attrs[h].censor_keys] = << >>

\* one handle with or without caller filters and censor keys, as InitChain
InitFields ==
    /\ Fresh
    /\ Idle
    /\ \E v \in {"basic", "graylog", "test"} :
          attrs = [h \in Handles |->
                      RootLogger("std_log", v, HOST, PORT, 20,
                                 OwnFilters(h), OwnCensor(h), "/path/to/testfile")]
    /\ \E fl \in { << >>, << "filter_a" >>, << "valid_test_filter", "filter_a" >> },
          cl \in { << >>, << "tag", "file_path", "password" >> } :
          heap = [l \in ListIds |->
                      CASE l = OwnFilters("h1") -> fl
                        [] l = OwnCensor("h1")  -> cl
                        [] OTHER -> << >>]

\* the keyword fields of the emit calls: a secret, and the five reserved keys
FieldsReserved ==
    { [k \in {"password"} |-> "hunter2"],
      [k \in {"logger", "level", "level_number", "timestamp", "file_path"} |-> "mine"] }

NextFields ==
    \/ initialise("h1")
    \/ \E m \in {"debug", "info"}, f \in FieldsReserved : emit("h1", m, f)

SpecFields == InitFields /\ [][NextFields]_vars

\* the keys the chain writes itself, as C25 lists them
ChainKeys == {"logger", "level", "level_number", "timestamp", "file_path"}

\* the call with outcome o on handle h ran up to the renderer of the chain
ReachedRenderer(h, o) ==
    /\ o.trace # << >>
    /\ o.trace[Len(o.trace)].stage = RENDER_MAP(attrs[h].logging_variant)
    /\ o.trace[Len(o.trace)].in.shape = "dict"

\* the record the renderer was handed in the call with outcome o
RendererInput(o) == o.trace[Len(o.trace)].in.d

\* C25 as stated: a caller-supplied field of an emit call named like a
\* reserved key (logger, level, level_number, timestamp, file_path) overwrites
\* the auto-populated value: the emitted record carries the caller's value.
C25_CallerFieldOverwritesReserved ==
    [][ \A h \in Handles : (EmitStep(h) /\ ReachedRenderer(h, last')) =>
            \A k \in ChainKeys \cap DOMAIN last'.trace[1].in.d :
                /\ k \in DOMAIN RendererInput(last')
                /\ RendererInput(last')[k] = last'.trace[1].in.d[k] ]_vars

\* C25 amended: a caller-supplied field of an emit call named like a reserved
\* key is overwritten by the stage that owns the key: the record handed to the
\* renderer carries the chain's value (the logger's name, the method name and
\* its number, the time stamp, the bound file path), or the sentinel where
\* the key is listed in censor_keys and that value is truthy.
C25_ReservedOverwritesCallerField ==
    [][ \A h \in Handles : (EmitStep(h) /\ ReachedRenderer(h, last')) =>
            \A k \in ChainKeys :
                /\ k \in DOMAIN RendererInput(last')
                /\ RendererInput(last')[k] = Sentinelled(h, k, AutoValue(h, k, last')) ]_vars

\* an emit call that gave all five reserved keys the value "mine" was
\* rendered with the chain's values
C25_Witness ==
    /\ last.op = "emit" /\ last.h = "h1" /\ last.exc = ""
    /\ ReachedRenderer("h1", last)
    /\ \A k \in ChainKeys :
          /\ k \in DOMAIN last.trace[1].in.d /\ last.trace[1].in.d[k] = "mine"
          /\ RendererInput(last)[k] # "mine"
    /\ RendererInput(last)["logger"] = "std_log"
    /\ RendererInput(last)["file_path"] = "/path/to/testfile"

\* the keys of the censor_keys list of handle h
CensorKeySet(h) ==
    { heap[attrs[h].censor_keys][i] : i \in DOMAIN heap[attrs[h].censor_keys] }

\* in record d every key of ks that is present holds a falsy value or the sentinel
NoSecretUnder(ks, d) ==
    \A k \in ks \cap DOMAIN d : ~ Truthy(d[k]) \/ d[k] = CENSOR

C28_ReinitialiseReflectsChanges ==
    [][ \A h \in Handles : (InitialiseStep(h) /\ is_initialised(h)) =>
            LET n   == attrs[h].logger_name
                fs  == heap[attrs[h].filter_functions]
                ctx == [name |-> n, method |-> "info", enabled |-> TRUE]
                d   == [k \in {"event", "password"} |->
                            IF k = "event" THEN "hello" ELSE "hunter2"]
                r   == run_from(synlog'[h], ctx, 1, DictV(d), << >>)
                rec == r.trace[Len(r.trace)].in.d
            IN  /\ synlog'[h].build # synlog[h].build
                /\ last'.ret = synlog'[h]
                /\ Len(synlog'[h].processors) = Len(fs) + 12
                /\ \A i \in DOMAIN fs : synlog'[h].processors[9 + i] = fs[i]
                /\ rec["file_path"] = Sentinelled(h, "file_path", attrs[h].file_path)
                /\ rec["password"] = Sentinelled(h, "password", "hunter2")
                /\ ("is_valid" \in DOMAIN rec) <=>
                        (\E i \in DOMAIN fs : fs[i] = "valid_test_filter")
                /\ levels'[n] = attrs[h].logging_level
                /\ handlers' = handlers /\ rootHandlers' = rootHandlers ]_vars

\* a second initialise() has just bound a chain that holds the filter, the
\* censor key and the file path the caller set, under the threshold the
\* caller set, with the one sink of the first call
C28_Witness ==
    /\ last.op = "initialise" /\ last.h = "h1" /\ synlog["h1"].build = 2
    /\ synlog["h1"].processors[10] = "valid_test_filter"
    /\ heap[synlog["h1"].censor_keys] = << "password" >>
    /\ synlog["h1"].file_path = "/path/to/testfile"
    /\ levels["std_log"] = 30
    /\ Len(handlers["std_log"]) = 1 /\ handlers["std_log"][1].id = 1

\* handle h was constructed without filter_functions and censor_keys
DefaultConstructed(h) ==
    attrs[h].filter_functions = DefaultFilters /\ attrs[h].censor_keys = DefaultCensor

\* C30: two handles constructed with default arguments share no configuration
\* state: appending a stage to one handle's filter_functions, or a key to its
\* censor_keys, changes neither the other handle's lists nor the chain the
\* other handle builds.
C30_DefaultHandlesShareNothing ==
    [][ \A h, g \in Handles :
            (/\ h # g /\ DefaultConstructed(h) /\ DefaultConstructed(g)
             /\ \/ append_filter(h, "valid_test_filter")
                \/ append_censor_key(h, "password")) =>
                /\ heap'[attrs[g].filter_functions] = heap[attrs[g].filter_functions]
                /\ heap'[attrs[g].censor_keys] = heap[attrs[g].censor_keys]
                /\ _configure_processors(attrs[g], 0)' = _configure_processors(attrs[g], 0)
      ]_vars

\* the fields the collection stages of utils.py are written to add
TelemetryFields ==
    { "cpu_percent", "memory_total", "memory_available", "memory_used",
      "memory_free", "disk_read_counter", "disk_write_counter",
      "disk_read_bytes", "disk_write_bytes", "net_bytes_sent", "net_bytes_recv",
      "net_packets_sent", "net_packets_recv" }

\* C23: every record emitted through a Metrics Sampler's chain carries the
\* telemetry fields written by the four built-in collection stages, which run
\* ahead of the caller-supplied filters: an emit call on a sampler that
\* passes the level filter hands the renderer a record with these fields.
C23_SamplerRecordsCarryTelemetry ==
    (/\ last.op = "emit" /\ last.trace # << >>
     /\ ctor[last.h].cls = "SysmetricLogger"
     /\ \E i \in 1..Len(last.trace) :
            last.trace[i].stage = "filter_by_level" /\ last.trace[i].exc = "") =>
        LET t == last.trace[Len(last.trace)]
        IN  /\ t.stage = RENDER_MAP(attrs[last.h].logging_variant)
            /\ t.in.shape = "dict"
            /\ TelemetryFields \subseteq DOMAIN t.in.d

------------------------------------------------------------------------------
(* The Metrics Sampler (general.py: SysmetricLogger) and its background process *)

\* a step of a call that is not a stage of a chain
Ran(name) ==
    [stage |-> name, in |-> DictV(EmptyDict), out |-> DictV(EmptyDict), exc |-> ""]

\* a step of a call that was given keyword arguments
Called(name, kwargs) ==
    [stage |-> name, in |-> DictV(kwargs), out |-> DictV(EmptyDict), exc |-> ""]

\* mutation of initialise(**kwargs): the censor_keys keyword replaces the
\* list the chain censors
initialise_reads_kwargs(h, n, kwargs) ==
    [Rebind(h, n) EXCEPT !.censor_keys = kwargs.censor_keys]

\* the logger initialise(**kwargs) binds (lines 268-280): kwargs is read
\* nowhere in the body
initialise_kwargs(h, n, kwargs) == Rebind(h, n)

\* mutation of is_tracking: a sampler never counts as tracking
is_tracking_never(h) == FALSE

\* SysmetricLogger.is_tracking
is_tracking(h) == tracker[h] # None

\* mutation of Process: the daemon flag is left at its default
Process_not_daemon(h, sl, lv) ==
    [owner |-> h, pc |-> "spawned", exitcode |-> None, closed |-> FALSE,
     daemon |-> FALSE, sig |-> None, pending |-> None,
     synlog |-> sl, level |-> lv, out |-> << >>]

\* Process(target=target, args=(descriptors,)), daemon = True, then start():
\* the forked child holds a copy of the handle's bound logger and of the named
\* logger's level; pending is a signal sent to the process and not yet
\* delivered, sig the signal that reached the process while it ran
Process(h, sl, lv) ==
    [owner |-> h, pc |-> "spawned", exitcode |-> None, closed |-> FALSE,
     daemon |-> TRUE, sig |-> None, pending |-> None,
     synlog |-> sl, level |-> lv, out |-> << >>]

\* SysmetricLogger.track(file_path, class_name, function_name, resolution,
\* censor_keys), censor_keys naming the list object passed:
\* initialise(censor_keys=...) ignores its keyword
track(h, censor_keys) ==
    LET n == attrs[h].logger_name IN
    IF ~ is_tracking(h)
    THEN /\ nbuilds < MaxInit /\ Len(children) < MaxTrack
         /\ levels' = SetLevel(h, n)
         /\ handlers' = AttachHandler(h, n)
         /\ synlog' = [synlog EXCEPT ![h] =
                          initialise_kwargs(h, n, [censor_keys |-> censor_keys])]
         /\ nbuilds' = nbuilds + 1
         /\ entries' = [entries EXCEPT ![h] = << >>]
         /\ children' = Append(children,
                Process(h, synlog'[h], IF levels'[n] # 0 THEN levels'[n] ELSE 30))
         /\ tracker' = [tracker EXCEPT ![h] = ToString(Len(children) + 1)]
         /\ last' = Outcome("track", h, "", [tracker |-> tracker'[h]],
                            << Called("initialise", [censor_keys |-> censor_keys]),
                               Ran("Process.start") >>, << >>)
         /\ UNCHANGED <<attrs, heap, rootHandlers, uK, uR, uOut, uPc, ctor, pc>>
    ELSE /\ last' = Outcome("track", h, "", [tracker |-> tracker[h]], << >>, << >>)
         /\ UNCHANGED <<attrs, heap, synlog, levels, handlers, rootHandlers, entries,
                        nbuilds, uK, uR, uOut, uPc, ctor, tracker, children, pc>>

\* the process id stored in tracker[h]
Pid(h) == CHOOSE p \in DOMAIN children : ToString(p) = tracker[h]

\* one self.synlog.info(...) in the child c: the error that leaves the call
\* ("" when the record was rendered or dropped)
child_info(c, fields) ==
    LET ctx == [name |-> c.synlog.logger, method |-> "info",
                enabled |-> NameToLevel["info"] >= c.level]
        r   == run_from(c.synlog, ctx, 1, DictV(Put(fields, "event", "hello")), << >>)
    IN  IF r.exc = "DropEvent" THEN "" ELSE r.exc

\* whether that self.synlog.info(...) got as far as the renderer, i.e. whether
\* the event was logged
child_logged(c, fields) ==
    LET ctx == [name |-> c.synlog.logger, method |-> "info",
                enabled |-> NameToLevel["info"] >= c.level]
        r   == run_from(c.synlog, ctx, 1, DictV(Put(fields, "event", "hello")), << >>)
        t   == r.trace[Len(r.trace)]
    IN  /\ t.stage = c.synlog.processors[Len(c.synlog.processors)]
        /\ t.exc \in {"", "DropEvent"}

\* the keyword fields of the first farewell event of __exit
signal_fields(signame) ==
    [k \in {"signame", "signnum"} |->
        IF k = "signame" THEN signame
        ELSE IF signame = "SIGTERM" THEN "15" ELSE "2"]

\* SysmetricLogger.__exit(signum, frame) in the child c: two farewell events,
\* then sys.exit(0); an error raised by an emit call leaves the handler and
\* ends the process with status 1
__exit(c, signame) ==
    LET e1 == child_info(c, signal_fields(signame))
        e2 == child_info(c, EmptyDict)
        l1 == child_logged(c, signal_fields(signame))
        l2 == child_logged(c, EmptyDict)
    IN  IF e1 # ""
        THEN [c EXCEPT !.pc = "exited", !.exitcode = "1",
                       !.out = Append(@, [event |-> "signal", exc |-> e1, logged |-> l1])]
        ELSE IF e2 # ""
        THEN [c EXCEPT !.pc = "exited", !.exitcode = "1",
                       !.out = @ \o << [event |-> "signal", exc |-> "", logged |-> l1],
                                       [event |-> "stopped", exc |-> e2, logged |-> l2] >>]
        ELSE [c EXCEPT !.pc = "exited", !.exitcode = "0",
                       !.out = @ \o << [event |-> "signal", exc |-> "", logged |-> l1],
                                       [event |-> "stopped", exc |-> "", logged |-> l2] >>]

\* the child c after signal signame reaches it: before target() has installed
\* the handlers SIGTERM kills the process (exit code -15) and SIGINT raises
\* KeyboardInterrupt (exit code 1); afterwards __exit runs; a process that has
\* exited is not affected
on_signal(c, signame) ==
    CASE c.pc = "spawned" ->
            [c EXCEPT !.pc = "exited", !.sig = signame,
                      !.exitcode = IF signame = "SIGTERM" THEN "-15" ELSE "1"]
      [] c.pc = "looping" -> __exit([c EXCEPT !.sig = signame], signame)
      [] c.pc = "exited"  -> c

\* SysmetricLogger.terminate(): on a sampler without tracker the attribute
\* lookup None.terminate raises; otherwise SIGTERM is sent, the process is
\* joined and closed, tracker is reset and the exit code returned
terminate(h) ==
    IF tracker[h] = None
    THEN /\ last' = Outcome("terminate", h, "AttributeError", [exitcode |-> None],
                            << >>, << >>)
         /\ UNCHANGED <<attrs, heap, synlog, levels, handlers, rootHandlers, entries,
                        nbuilds, uK, uR, uOut, uPc, ctor, tracker, children, pc>>
    ELSE LET p == Pid(h)
             c == on_signal(children[p], "SIGTERM")
         IN  /\ children' = [children EXCEPT ![p] = [c EXCEPT !.closed = TRUE]]
             /\ tracker' = [tracker EXCEPT ![h] = None]
             /\ last' = Outcome("terminate", h, "", [exitcode |-> c.exitcode],
                                << Ran("Process.terminate"), Ran("Process.join"),
                                   Ran("Process.close") >>, << >>)
             /\ UNCHANGED <<attrs, heap, synlog, levels, handlers, rootHandlers,
                            entries, nbuilds, uK, uR, uOut, uPc, ctor, pc>>

\* target() in the child p, lines 353-357: the handlers for SIGINT and SIGTERM
\* are installed
target(p) ==
    /\ children[p].pc = "spawned"
    /\ children' = [children EXCEPT ![p].pc = "looping"]
    /\ UNCHANGED <<attrs, heap, synlog, levels, handlers, rootHandlers, entries,
                   nbuilds, last, uK, uR, uOut, uPc, ctor, tracker, pc>>

\* one self.__probe(...) of the loop in the child p: self.apply_filters and
\* self.templog are defined nowhere, so the first statement raises
\* AttributeError, which ends the process with status 1
__probe(p) ==
    /\ children[p].pc = "looping"
    /\ children' = [children EXCEPT ![p].pc = "exited", ![p].exitcode = "1",
                        ![p].out = Append(@, [event |-> "probe", exc |-> "AttributeError",
                                              logged |-> FALSE])]
    /\ UNCHANGED <<attrs, heap, synlog, levels, handlers, rootHandlers, entries,
                   nbuilds, last, uK, uR, uOut, uPc, ctor, tracker, pc>>

\* SIGINT or SIGTERM sent to the running child p from outside the sampler
signal(p, signame) ==
    /\ children[p].pc # "exited"
    /\ children' = [children EXCEPT ![p] = on_signal(@, signame)]
    /\ UNCHANGED <<attrs, heap, synlog, levels, handlers, rootHandlers, entries,
                   nbuilds, last, uK, uR, uOut, uPc, ctor, tracker, pc>>

\* two samplers, built by SysmetricLogger(server=HOST, logger_name=...,
\* logging_level=..., logging_variant=...); OwnCensor(h) is a list the caller
\* of h holds to pass to track()
InitSampler ==
    /\ \E v \in {"basic", "test", "graylog"}, lv \in {20, 30}, l \in {"a", "TTP_a"} :
          /\ attrs = [h \in Handles |->
                        IF h = "h1"
                        THEN SysmetricLogger(HOST, "a", lv, v, OwnFilters(h), "")
                        ELSE SysmetricLogger(HOST, l, 20, "test", OwnFilters(h), "")]
          /\ ctor = [h \in Handles |->
                        [cls |-> "SysmetricLogger", server |-> HOST,
                         logger_name |-> IF h = "h1" THEN "a" ELSE l,
                         logging_variant |-> IF h = "h1" THEN v ELSE "test"]]
    /\ heap = [l \in ListIds |->
                IF l \in {OwnFilters(h) : h \in Handles} THEN DEFAULT_FILTERS
                ELSE IF l \in {OwnCensor(h) : h \in Handles} THEN << "cpu_percent" >>
                ELSE << >>]
    /\ synlog = [h \in Handles |-> NoSynlog]
    /\ levels = [n \in RoleNames |-> 0]
    /\ handlers = [n \in RoleNames |-> << >>]
    /\ rootHandlers = FALSE
    /\ entries = [h \in Handles |-> << >>]
    /\ nbuilds = 0
    /\ last = Outcome("construct", "h1", "", NoSynlog, << >>, << >>)
    /\ tracker = [h \in Handles |-> None]
    /\ children = << >>
    /\ pc = [h \in Handles |-> "idle"]
    /\ Idle

NextSampler ==
    \/ \E h \in Handles : \E ck \in {TrackDefaultCensor, OwnCensor(h)} : track(h, ck)
    \/ \E h \in Handles : terminate(h)
    \/ \E p \in DOMAIN children : target(p)
    \/ \E p \in DOMAIN children : __probe(p)
    \/ \E p \in DOMAIN children, sig \in {"SIGINT", "SIGTERM"} : signal(p, sig)

SpecSampler == InitSampler /\ [][NextSampler]_vars

\* the background processes of sampler h that have not exited
Live(h, procs) ==
    { p \in DOMAIN procs : procs[p].owner = h /\ procs[p].pc # "exited" }

\* the step is a call of track() on sampler h
TrackStep(h) == last'.op = "track" /\ last'.h = h /\ last' # last

\* the step is a call of terminate() on sampler h
TerminateStep(h) == last'.op = "terminate" /\ last'.h = h /\ last' # last

\* C17: in every reachable state of a sampler, tracker is non-null iff a
\* background process of the sampler is running; tracker is never non-null
\* while its process has exited on its own.
C17_TrackerIffProcessRunning ==
    \A h \in Handles : tracker[h] # None <=> Live(h, children) # {}

\* C18: track() on a sampler that is tracking spawns no process, does not
\* re-initialise the handle and returns the process stored in tracker; at any
\* time at most one background process of a sampler is running.
C18_TrackWhileTrackingIsNoOp ==
    [][ \A h \in Handles :
            /\ (TrackStep(h) /\ tracker[h] # None) =>
                  /\ children' = children /\ tracker' = tracker
                  /\ synlog' = synlog /\ nbuilds' = nbuilds
                  /\ levels' = levels /\ handlers' = handlers /\ entries' = entries
                  /\ last'.exc = "" /\ last'.ret.tracker = tracker[h]
            /\ Cardinality(Live(h, children')) <= 1 ]_vars

\* track() was called on a sampler whose background process is running, and
\* returned that process without doing anything
C18_Witness ==
    /\ last.op = "track" /\ last.h = "h1" /\ last.trace = << >>
    /\ tracker["h1"] = "1" /\ last.ret.tracker = "1"
    /\ Len(children) = 1 /\ children[1].pc = "looping"
    /\ nbuilds = 1

\* C19: terminate() called at any moment after track() has returned, also
\* right after the spawn, returns exit code 0 and leaves tracker null; a
\* further terminate() fails.
C19_TerminateReturnsZero ==
    [][ \A h \in Handles : TerminateStep(h) =>
            IF tracker[h] # None
            THEN /\ last'.exc = "" /\ last'.ret.exitcode = "0"
                 /\ tracker'[h] = None
            ELSE last'.exc # "" ]_vars

\* C20: terminate() on a sampler that is not tracking fails with RuntimeError;
\* no signal is sent to any process and tracker stays null.
C20_PrematureTerminateRuntimeError ==
    [][ \A h \in Handles : (TerminateStep(h) /\ tracker[h] = None) =>
            /\ last'.exc = "RuntimeError"
            /\ children' = children
            /\ tracker'[h] = None ]_vars

\* C21: in the background process either signal, SIGINT or SIGTERM, takes the
\* same exit path: both farewell events are logged, then the process exits
\* with status 0, and no telemetry event follows the farewell.
C21_SignalLogsFarewellThenExitsZero ==
    \A p \in DOMAIN children :
        LET c == children[p]
            n == Len(c.out)
        IN  c.sig # None =>
                /\ c.pc = "exited" /\ c.exitcode = "0"
                /\ n >= 2
                /\ c.out[n - 1].event = "signal" /\ c.out[n - 1].logged
                /\ c.out[n].event = "stopped" /\ c.out[n].logged

\* C22: every iteration of the sampler loop re-applies the filter stages, emits
\* exactly one telemetry event (ID_path, ID_class, ID_function, resolution) and
\* then sleeps; the loop goes on until a termination signal arrives.
C22_ProbeEmitsOneEventPerIteration ==
    \A p \in DOMAIN children :
        LET c == children[p]
        IN  /\ \A i \in 1..Len(c.out) :
                    c.out[i].event = "probe" => (c.out[i].exc = "" /\ c.out[i].logged)
            /\ c.pc = "exited" => c.sig # None

C29_LifecycleRepeats ==
    [][ \A h \in Handles :
            /\ (TrackStep(h) /\ tracker[h] = None) =>
                  LET p == Len(children')
                  IN  /\ Len(children') = Len(children) + 1
                      /\ p \notin DOMAIN children
                      /\ tracker'[h] = ToString(p) /\ last'.ret.tracker = ToString(p)
                      /\ \A g \in Handles : tracker[g] # ToString(p)
                      /\ children'[p].owner = h /\ children'[p].daemon
                      /\ children'[p].pc = "spawned" /\ ~ children'[p].closed
                      /\ \A q \in DOMAIN children : children'[q] = children[q]
                      /\ is_tracking(h)'
            /\ (TerminateStep(h) /\ tracker[h] # None) =>
                  /\ ~ is_tracking(h)'
                  /\ children'[Pid(h)].pc = "exited" /\ children'[Pid(h)].closed
                  /\ Live(h, children') = {} ]_vars

\* track, terminate, track, terminate on one sampler: two processes were
\* spawned, both are closed and the sampler is inactive
C29_Witness ==
    /\ last.op = "terminate" /\ last.h = "h1" /\ last.exc = ""
    /\ Len(children) = 2
    /\ \A p \in {1, 2} : children[p].owner = "h1" /\ children[p].closed
                            /\ children[p].daemon
    /\ tracker["h1"] = None

------------------------------------------------------------------------------
(* terminate() step by step: the caller waits in join() while the child runs *)

\* mutation of Process.join(): it returns without waiting for the exit
joined_nowait(c) == TRUE

\* Process.join() returns once the process has exited
joined(c) == c.pc = "exited"

\* line 387 of terminate(): self.tracker.terminate() sends SIGTERM to the
\* child, then the caller enters join()
terminate_send(h) ==
    /\ pc[h] = "idle" /\ tracker[h] # None
    /\ LET p == Pid(h)
       IN  children' = [children EXCEPT ![p].pending =
                            IF children[p].pc = "exited" THEN None ELSE "SIGTERM"]
    /\ pc' = [pc EXCEPT ![h] = "join"]
    /\ UNCHANGED <<attrs, heap, synlog, levels, handlers, rootHandlers, entries,
                   nbuilds, last, uK, uR, uOut, uPc, ctor, tracker>>

\* the signal pending for the child p is delivered to it
deliver(p) ==
    /\ children[p].pending # None /\ children[p].pc # "exited"
    /\ LET c == on_signal(children[p], children[p].pending)
       IN  children' = [children EXCEPT ![p] = [c EXCEPT !.pending = None]]
    /\ UNCHANGED <<attrs, heap, synlog, levels, handlers, rootHandlers, entries,
                   nbuilds, last, uK, uR, uOut, uPc, ctor, tracker, pc>>

\* lines 388-394 of terminate(): join() returns, the exit code is read, the
\* process object is closed, tracker is reset and the exit code returned
terminate_join(h) ==
    /\ pc[h] = "join"
    /\ LET p == Pid(h)
           c == children[p]
       IN  /\ joined(c)
           /\ children' = [children EXCEPT ![p].closed = TRUE]
           /\ last' = Outcome("terminate", h, "", [exitcode |-> c.exitcode],
                              << Ran("Process.terminate"), Ran("Process.join"),
                                 Ran("Process.close") >>, << >>)
    /\ tracker' = [tracker EXCEPT ![h] = None]
    /\ pc' = [pc EXCEPT ![h] = "idle"]
    /\ UNCHANGED <<attrs, heap, synlog, levels, handlers, rootHandlers, entries,
                   nbuilds, uK, uR, uOut, uPc, ctor>>

\* a step of the child p
child_step(p) == p \in DOMAIN children /\ (target(p) \/ __probe(p) \/ deliver(p))

NextJoin ==
    \/ \E h \in Handles : pc[h] = "idle" /\ track(h, TrackDefaultCensor)
    \/ \E h \in Handles : pc[h] = "idle" /\ tracker[h] = None /\ terminate(h)
    \/ \E h \in Handles : terminate_send(h)
    \/ \E h \in Handles : terminate_join(h)
    \/ \E p \in DOMAIN children : target(p)
    \/ \E p \in DOMAIN children : __probe(p)
    \/ \E p \in DOMAIN children : deliver(p)

\* the operating system keeps scheduling a child that can run, and a caller
\* whose join() can return does return
FairJoin ==
    /\ \A p \in 1..MaxTrack : WF_vars(child_step(p))
    /\ \A h \in Handles : WF_vars(terminate_join(h))

\* the samplers of InitSampler, both with the capturing renderer
InitJoin == InitSampler /\ attrs["h1"].logging_variant = "test"

SpecJoin == InitJoin /\ [][NextJoin]_vars /\ FairJoin

\* C24: terminate() on a tracking sampler eventually returns, and only after
\* the background process has exited: at the return the process is not alive,
\* its handle is closed, tracker is reset and the value returned is the
\* process's exit status.
C24_TerminateJoinsThenReturns ==
    /\ \A h \in Handles : (pc[h] = "join") ~> (pc[h] = "idle")
    /\ [][ \A h \in Handles : (pc[h] = "join" /\ pc'[h] = "idle") =>
                LET p == Pid(h)
                IN  /\ children'[p].pc = "exited" /\ children'[p].closed
                    /\ children'[p].exitcode # None
                    /\ last'.op = "terminate" /\ last'.h = h /\ last'.exc = ""
                    /\ last'.ret.exitcode = children'[p].exitcode
                    /\ tracker'[h] = None ]_vars

\* terminate() has returned 0 from a child that took the signal in its handler
C24_Witness ==
    /\ last.op = "terminate" /\ last.h = "h1" /\ last.exc = ""
    /\ last.ret.exitcode = "0"
    /\ children[1].sig = "SIGTERM" /\ children[1].closed /\ children[1].pc = "exited"
    /\ tracker["h1"] = None /\ pc["h1"] = "idle"

====
